---- MODULE Spec2Model ----
(***************************************************************************)
(* A model of the verse-card service of Kareem-Ashmawy:                    *)
(*   - fetchVerseAndDesign (range normalisation, fetch, response checks,   *)
(*     the grouping loop, pushSegment, the design step), in its two        *)
(*     implementations src/unnamed/part_000 and                            *)
(*     src/services/geminiService.ts;                                      *)
(*   - getDesignFromText, the keyword classifier of part_000;              *)
(*   - convertToArabicNumerals;                                            *)
(*   - two calls of fetchVerseAndDesign in flight together;                *)
(*   - the App component of src/App.tsx: the verse selection,              *)
(*     handleFetchVerse and the cards.                                     *)
(*                                                                         *)
(* Strings are TLA+ strings; TLC evaluates Len, \o and SubSeq on them.     *)
(* The module is ASCII, so the non-ASCII glyphs of the source are written  *)
(* with one ASCII character each (the lengths are those of the source):    *)
(*   Arabic-Indic digits U+0660..U+0669  ->  "A" .. "J"                    *)
(*   the end-of-ayah mark U+06DD         ->  "@"                           *)
(*   a letter of the Uthmani text        ->  "v"                           *)
(***************************************************************************)
EXTENDS Integers, Sequences, FiniteSets, TLC

(***************************************************************************)
(* Bounds of the model.                                                    *)
(***************************************************************************)
\* the largest number of verses a request asks for (endAyah - startAyah + 1)
MaxVerses == 3
\* the largest number of words of a text given to the classifier
MaxWords == 2
\* the largest number given to convertToArabicNumerals on its own
MaxNumber == 130
\* the number of verses each of two concurrent calls asks for
MaxPairVerses == 2
\* the number of times the Generate button is pressed
MaxFetches == 1
\* calls of handleSurahChange
MaxSelections == 2
\* the number of times the Generate button is pressed when generations repeat
MaxGenerations == 2
\* the number of times a Download button is pressed
MaxDownloads == 2

(***************************************************************************)
(* Values of the source.                                                   *)
(***************************************************************************)
TARGET_CARD_CAPACITY == 450

\* BackgroundType, src/types.ts
NATURE == "NATURE"
SKY == "SKY"
JANNAT == "JANNAT"
BackgroundType == {SKY, NATURE, JANNAT}

\* an optional number argument (endAyah?: number): given or undefined
Undefined == [given |-> FALSE, value |-> 0]
Num(v) == [given |-> TRUE, value |-> v]
\* JavaScript truthiness of an optional number: undefined and 0 are falsy
Truthy(e) == e.given /\ e.value # 0

\* a missing array element (transAyahs[i] past the end of the array)
NoAyah == [missing |-> TRUE]

(***************************************************************************)
(* Strings.                                                                *)
(***************************************************************************)
CharAt(s, k) == SubSeq(s, k, k)

RECURSIVE Repeat(_, _)
Repeat(c, n) ==
    IF n = 0 THEN ""
    ELSE LET half == Repeat(c, n \div 2)
         IN  half \o half \o (IF n % 2 = 1 THEN c ELSE "")

\* the UTF-16 code units of a string, as a sequence of one-character strings
RECURSIVE CharsFrom(_, _)
CharsFrom(s, k) == IF k > Len(s) THEN <<>> ELSE <<CharAt(s, k)>> \o CharsFrom(s, k + 1)
Chars(s) == CharsFrom(s, 1)

\* String.prototype.includes, on the code units of the text and of the word
Includes(text, word) ==
    \E k \in 1..(Len(text) - Len(word) + 1) :
        /\ text[k] = word[1]
        /\ \A j \in 2..Len(word) : text[k + j - 1] = word[j]

UpperLetters == Chars("ABCDEFGHIJKLMNOPQRSTUVWXYZ")
LowerLetters == Chars("abcdefghijklmnopqrstuvwxyz")
LowerOf == [c \in {UpperLetters[k] : k \in 1..Len(UpperLetters)} |->
              LowerLetters[CHOOSE k \in 1..Len(UpperLetters) : UpperLetters[k] = c]]

LowerChar(c) == IF c \in DOMAIN LowerOf THEN LowerOf[c] ELSE c

\* String.prototype.toLowerCase; the result is given by its code units
RECURSIVE LowerFrom(_, _)
LowerFrom(s, k) ==
    IF k > Len(s) THEN <<>> ELSE <<LowerChar(CharAt(s, k))>> \o LowerFrom(s, k + 1)
ToLowerCase(s) == LowerFrom(s, 1)

\* a variant that joins without a separator
RECURSIVE JoinEmpty(_)
JoinEmpty(items) == IF items = <<>> THEN "" ELSE items[1] \o JoinEmpty(Tail(items))

\* Array.prototype.join(' ') of a sequence of strings
RECURSIVE JoinSpace(_)
JoinSpace(items) ==
    IF items = <<>> THEN ""
    ELSE IF Len(items) = 1 THEN items[1]
    ELSE items[1] \o " " \o JoinSpace(Tail(items))

(***************************************************************************)
(* convertToArabicNumerals                                                  *)
(***************************************************************************)
DecimalDigits == "0123456789"
arabicDigits == <<"A", "B", "C", "D", "E", "F", "G", "H", "I", "J">>

IsDigit(c) == \E k \in 1..Len(DecimalDigits) : CharAt(DecimalDigits, k) = c
\* parseInt(d) of a one-digit string
ParseDigit(c) == (CHOOSE k \in 1..Len(DecimalDigits) : CharAt(DecimalDigits, k) = c) - 1

\* a variant that replaces the first digit only (the pattern without its g flag)
ReplaceFirstDigit(s) ==
    IF s = "" THEN ""
    ELSE LET c == CharAt(s, 1)
         IN  (IF IsDigit(c) THEN arabicDigits[ParseDigit(c) + 1] ELSE c)
                \o SubSeq(s, 2, Len(s))

\* s.replace(/\d/g, d => arabicDigits[parseInt(d)])
RECURSIVE ReplaceDigits(_)
ReplaceDigits(s) ==
    IF s = "" THEN ""
    ELSE LET c == CharAt(s, 1)
         IN  (IF IsDigit(c) THEN arabicDigits[ParseDigit(c) + 1] ELSE c)
                \o ReplaceDigits(SubSeq(s, 2, Len(s)))

convertToArabicNumerals(n) == ReplaceDigits(ToString(n))

(***************************************************************************)
(* getDesignFromText (part_000): the keyword classifier.                   *)
(***************************************************************************)
keywords ==
    [t \in BackgroundType |->
        CASE t = JANNAT -> <<"paradise", "garden", "river", "heaven", "reward", "fruit",
                             "shade", "eternity", "jannah", "bliss", "springs", "gold",
                             "silk", "peace">>
          [] t = SKY    -> <<"sky", "sun", "moon", "star", "night", "day", "cloud", "rain",
                             "thunder", "universe", "light", "darkness", "space", "planet",
                             "orbit", "rising", "setting">>
          [] t = NATURE -> <<"earth", "mountain", "sea", "ocean", "land", "water", "tree",
                             "plant", "wind", "creation", "animal", "bird", "cattle",
                             "camel", "desert", "rock">>]

RECURSIVE WordChars(_, _)
WordChars(words, k) ==
    IF k > Len(words) THEN <<>> ELSE <<Chars(words[k])>> \o WordChars(words, k + 1)
keywordChars ==
    [JANNAT |-> WordChars(keywords[JANNAT], 1),
     SKY    |-> WordChars(keywords[SKY], 1),
     NATURE |-> WordChars(keywords[NATURE], 1)]

\* a variant that adds one for every occurrence of a word
ScoreOfOccurrences(t, lowerText) ==
    Cardinality({p \in (1..Len(keywordChars[t])) \X (1..Len(lowerText)) :
        /\ p[2] + Len(keywordChars[t][p[1]]) - 1 <= Len(lowerText)
        /\ \A j \in 1..Len(keywordChars[t][p[1]]) :
              lowerText[p[2] + j - 1] = keywordChars[t][p[1]][j]})

\* the inner loop over one category's words: one increment per word that occurs
ScoreOf(t, lowerText) ==
    Cardinality({k \in 1..Len(keywordChars[t]) : Includes(lowerText, keywordChars[t][k])})

\* the "fast frequency count" over the lower-cased text
Scores(text) ==
    LET lowerText == ToLowerCase(text)
    IN  [JANNAT |-> ScoreOf(JANNAT, lowerText),
         SKY    |-> ScoreOf(SKY, lowerText),
         NATURE |-> ScoreOf(NATURE, lowerText)]

\* the order in which the scores are scanned
types == <<NATURE, SKY, JANNAT>>

\* one pass of "for (const t of types)": a strictly greater score replaces the best
RECURSIVE ScanBest(_, _, _)
ScanBest(scores, k, best) ==
    IF k > Len(types) THEN best
    ELSE ScanBest(scores, k + 1,
                  IF scores[types[k]] > best.maxScore
                  THEN [maxScore |-> scores[types[k]], bestType |-> types[k]]
                  ELSE best)

\* a variant in which an equal score replaces the best
RECURSIVE ScanBestLast(_, _, _)
ScanBestLast(scores, k, best) ==
    IF k > Len(types) THEN best
    ELSE ScanBestLast(scores, k + 1,
                      IF scores[types[k]] >= best.maxScore
                      THEN [maxScore |-> scores[types[k]], bestType |-> types[k]]
                      ELSE best)

SelectBestLastWins(scores) == ScanBestLast(scores, 1, [maxScore |-> -1, bestType |-> NATURE])

\* "select best match": the best type and its score
SelectBest(scores) == ScanBest(scores, 1, [maxScore |-> -1, bestType |-> NATURE])

\* Math.floor(Math.random() * types.length)
RandomIndex == 0..(Len(types) - 1)

\* a variant with the opacity the prompt of the AI design step names
DesignOfOpacitySixty(best, r) ==
    [backgroundType |-> IF best.maxScore = 0 THEN types[r + 1] ELSE best.bestType,
     textColor |-> "white",
     opacity |-> 60]

\* a variant that picks at random whatever the scores
DesignOfRandomAlways(best, r) ==
    [backgroundType |-> types[r + 1], textColor |-> "white", opacity |-> 50]

\* a variant without the random pick
DesignOfNoRandom(best, r) ==
    [backgroundType |-> best.bestType, textColor |-> "white", opacity |-> 50]

\* the random pick when no keyword matched, and the returned design;
\* opacity is kept in hundredths: 50 is 0.5
DesignOf(best, r) ==
    [backgroundType |-> IF best.maxScore = 0 THEN types[r + 1] ELSE best.bestType,
     textColor |-> "white",
     opacity |-> 50]

getDesignFromText(text, r) == DesignOf(SelectBest(Scores(text)), r)

(***************************************************************************)
(* pushSegment (the same code in both files).                              *)
(***************************************************************************)
IsMissing(t) == "missing" \in DOMAIN t

\* reading t.text of an undefined element raises a TypeError
PushSegmentThrows(transChunk) == \E k \in 1..Len(transChunk) : IsMissing(transChunk[k])

\* reading arabicChunk[0].numberInSurah of an empty chunk raises a TypeError
EmptyChunkThrows(arabicChunk) == arabicChunk = <<>>

\* a variant that always writes the range
AyahLabelAlwaysRange(firstNum, lastNum) == ToString(firstNum) \o "-" \o ToString(lastNum)

\* the ayah-range label of a chunk
AyahLabel(firstNum, lastNum) ==
    IF firstNum = lastNum THEN ToString(firstNum)
    ELSE ToString(firstNum) \o "-" \o ToString(lastNum)

ArabicItem(a) == a.text \o " @" \o convertToArabicNumerals(a.numberInSurah)
TransItem(t) == t.text \o " (" \o ToString(t.numberInSurah) \o ")"

\* the segment pushSegment appends for a non-empty chunk without missing elements
BuildSegment(arabicChunk, transChunk, name) ==
    [arabic      |-> JoinSpace([k \in 1..Len(arabicChunk) |-> ArabicItem(arabicChunk[k])]),
     translation |-> JoinSpace([k \in 1..Len(transChunk) |-> TransItem(transChunk[k])]),
     surah       |-> name,
     ayah        |-> AyahLabel(arabicChunk[1].numberInSurah,
                               arabicChunk[Len(arabicChunk)].numberInSurah)]

(***************************************************************************)
(* The grouping loop of fetchVerseAndDesign.                               *)
(***************************************************************************)
\* the two implementations of fetchVerseAndDesign
Part000 == "part_000"
GeminiService == "geminiService"
Impl == {Part000, GeminiService}

\* a variant of part_000 with the operands of || exchanged: the fallback always wins
TransAtFallbackFirst(im, trans, k, verse) ==
    IF im = Part000 THEN [text |-> "", numberInSurah |-> verse.numberInSurah]
    ELSE IF k <= Len(trans) THEN trans[k]
    ELSE NoAyah

\* transAyahs[i], with the fallback of part_000 (k is the 1-based index)
TransAt(im, trans, k, verse) ==
    IF k <= Len(trans) THEN trans[k]
    ELSE IF im = Part000 THEN [text |-> "", numberInSurah |-> verse.numberInSurah]
    ELSE NoAyah

\* variants of the test: without the candidate verse, with the length in place of the
\* number of buffered verses, and closing at the capacity itself
ShouldCloseIgnoringVerse(curLength, verseLength, chunk) ==
    curLength > TARGET_CARD_CAPACITY /\ Len(chunk) > 0

ShouldCloseByLength(curLength, verseLength, chunk) ==
    curLength + verseLength > TARGET_CARD_CAPACITY /\ curLength > 0

ShouldCloseAtCapacity(curLength, verseLength, chunk) ==
    curLength + verseLength >= TARGET_CARD_CAPACITY /\ Len(chunk) > 0

\* "should we start a new card?"
ShouldClose(curLength, verseLength, chunk) ==
    curLength + verseLength > TARGET_CARD_CAPACITY /\ Len(chunk) > 0

\* a variant that pushes the buffer whatever it holds
ShouldPushRestAlways(chunk) == TRUE

\* "push any remaining verses in the buffer"
ShouldPushRest(chunk) == Len(chunk) > 0

\* the locals of the loop; threw: pushSegment raised; chunks: the arabicChunk of
\* every pushSegment call that pushed (history)
LoopStart ==
    [i |-> 0, currentChunkArabic |-> <<>>, currentChunkTrans |-> <<>>,
     currentLength |-> 0, segments |-> <<>>, chunks |-> <<>>, threw |-> FALSE]

\* pushSegment(segments, currentChunkArabic, currentChunkTrans, surahName)
PushSegment(st, name) ==
    IF EmptyChunkThrows(st.currentChunkArabic) \/ PushSegmentThrows(st.currentChunkTrans)
    THEN [st EXCEPT !.threw = TRUE]
    ELSE [st EXCEPT
            !.segments = Append(@, BuildSegment(st.currentChunkArabic,
                                                st.currentChunkTrans, name)),
            !.chunks = Append(@, st.currentChunkArabic)]

\* "reset buffer"
ResetBuffer(st) ==
    [st EXCEPT !.currentChunkArabic = <<>>, !.currentChunkTrans = <<>>,
               !.currentLength = 0]

\* one iteration of the loop, for the verse at index st.i
LoopBody(im, st, ar, tr, name) ==
    LET verse == ar[st.i + 1]
        trans == TransAt(im, tr, st.i + 1, verse)
        verseLength == Len(verse.text)
        pushed == PushSegment(st, name)
        ready == IF ShouldClose(st.currentLength, verseLength, st.currentChunkArabic)
                 THEN IF pushed.threw THEN pushed ELSE ResetBuffer(pushed)
                 ELSE st
    IN  IF ready.threw THEN ready
        ELSE [ready EXCEPT
                !.currentChunkArabic = Append(@, verse),
                !.currentChunkTrans = Append(@, trans),
                !.currentLength = @ + verseLength,
                !.i = @ + 1]

RECURSIVE RunLoop(_, _, _, _, _)
RunLoop(im, st, ar, tr, name) ==
    IF st.threw \/ st.i >= Len(ar) THEN st
    ELSE RunLoop(im, LoopBody(im, st, ar, tr, name), ar, tr, name)

\* a variant that forgets the verses left in the buffer
AfterLoopNoPush(st, name) == st

\* the code after the loop
AfterLoop(st, name) ==
    IF ~ st.threw /\ ShouldPushRest(st.currentChunkArabic) THEN PushSegment(st, name) ELSE st

\* step 2 of fetchVerseAndDesign, from the locals st0
GroupingFrom(st0, im, ar, tr, name) == AfterLoop(RunLoop(im, st0, ar, tr, name), name)

\* step 2 of fetchVerseAndDesign
Grouping(im, ar, tr, name) == GroupingFrom(LoopStart, im, ar, tr, name)

(***************************************************************************)
(* The provider's response.                                                *)
(***************************************************************************)
\* the two editions the request names: quran-uthmani and the translation
Uthmani == [identifier |-> "quran-uthmani", language |-> "ar", type |-> "quran"]
Sahih == [identifier |-> "en.sahih", language |-> "en", type |-> "translation"]
Editions == {Uthmani, Sahih}
\* the entries of json.data: at most one per requested edition
EditionLists ==
    {<<>>} \cup {<<a>> : a \in Editions} \cup {<<a, b>> : a \in Editions, b \in Editions}

\* englishName of an entry
EnglishName(ed) == IF ed.type = "quran" THEN "Al-Faatiha" ELSE "The Opening"

\* verse.text.length of the verses the provider returns
LenChoices == {0, 100, 200, 250, 451}
ArabicTexts == [n \in LenChoices |-> Repeat("v", n)]
\* the translated text of verse v in the translation edition
TransTexts == <<"Mountain river", "Mercy">>
TransTextOf(v) == TransTexts[(v % Len(TransTexts)) + 1]

SeqsOf(S, n) == [1..n -> S]

\* the verses offset+1 .. offset+n of the source edition, n <= limit
ArabicAyahLists(offset, limit) ==
    UNION {{[k \in 1..n |-> [text |-> ArabicTexts[lens[k]], numberInSurah |-> offset + k]]
              : lens \in SeqsOf(LenChoices, n)} : n \in 0..limit}

\* the translation of the first m of n verses
TransAyahLists(offset, n) ==
    {[k \in 1..m |-> [text |-> TransTextOf(offset + k), numberInSurah |-> offset + k]]
        : m \in 0..n}

JsonKinds == {"invalid", "null", "noData", "dataNotArray", "array"}

\* arabicEd = json.data.find(...): the index of the first match, 0 when none
FindArabicEd(im, data) ==
    LET match(d) == IF im = Part000
                    THEN d.edition.identifier = "quran-uthmani"
                            \/ (d.edition.language = "ar" /\ d.edition.type = "quran")
                    ELSE d.edition.type = "quran"
        hits == {k \in 1..Len(data) : match(data[k])}
    IN  IF hits = {} THEN 0 ELSE CHOOSE k \in hits : \A j \in hits : k <= j

\* otherEd / transEd = json.data.find(...)
FindOtherEd(im, data, arabicEd) ==
    LET match(k) == IF im = Part000
                    THEN data[k].edition.identifier # "quran-uthmani" /\ k # arabicEd
                    ELSE data[k].edition.type = "translation"
        hits == {k \in 1..Len(data) : match(k)}
    IN  IF hits = {} THEN 0 ELSE CHOOSE k \in hits : \A j \in hits : k <= j

\* what the provider's contract calls a malformed response
MissingEdition(shape) ==
    \/ ~ \E k \in 1..Len(shape) : shape[k] = Uthmani
    \/ ~ \E k \in 1..Len(shape) : shape[k] = Sahih

(***************************************************************************)
(* State.                                                                  *)
(***************************************************************************)
VARIABLES
    impl,               \* which implementation runs
    startAyah, endAyah, \* the arguments of the call
    pc,                 \* where the call is
    requests,           \* the network requests made so far
    malformed,          \* the response was malformed (history)
    arabicAyahs, transAyahs, surahName,
    i, currentChunkArabic, currentChunkTrans, currentLength, segments,
    chunks,             \* the arabicChunk of every pushSegment call that pushed (history)
    design,             \* the design of the call
    aiAnswer,           \* what the AI design step answered (history)
    result,             \* what the call returned
    error,              \* what the call threw
    text, scores, chosen, clPc,  \* a call of getDesignFromText on its own
    num, numeral, numPc,         \* a call of convertToArabicNumerals on its own
    calls,                       \* calls of fetchVerseAndDesign in flight, each with its
                                 \* own parameters and locals
    app                          \* the state of the App component

callVars == <<impl, startAyah, endAyah>>
loopVars == <<i, currentChunkArabic, currentChunkTrans, currentLength, segments, chunks>>
respVars == <<arabicAyahs, transAyahs, surahName>>
clVars == <<text, scores, chosen, clPc>>
numVars == <<num, numeral, numPc>>
singleVars == <<callVars, pc, requests, malformed, respVars, loopVars, design, aiAnswer, result,
                error, clVars, numVars>>
vars == <<singleVars, calls, app>>

NoResult == [returned |-> FALSE]
NoError == ""
NoDesign == [backgroundType |-> "", textColor |-> "", opacity |-> 0]
DefaultDesign == [backgroundType |-> NATURE, textColor |-> "white", opacity |-> 50]
\* what the model's JSON answer may hold: every field is optional
NoAnswer == [backgroundType |-> "", textColor |-> "", opacity |-> 0]

StartAyahs == {1, 10}
EndAyahs(start) == {Undefined} \cup {Num(v) : v \in 0..(start + MaxVerses - 1)}

(***************************************************************************)
(* Initial states: a call of fetchVerseAndDesign(surah, startAyah,         *)
(* endAyah?) is about to run.                                              *)
(***************************************************************************)
LoopInit ==
    /\ i = 0
    /\ currentChunkArabic = <<>>
    /\ currentChunkTrans = <<>>
    /\ currentLength = 0
    /\ segments = <<>>
    /\ chunks = <<>>

CallInit ==
    /\ requests = <<>>
    /\ malformed = FALSE
    /\ arabicAyahs = <<>>
    /\ transAyahs = <<>>
    /\ surahName = ""
    /\ LoopInit
    /\ design = NoDesign
    /\ aiAnswer = NoAnswer
    /\ result = NoResult
    /\ error = NoError

ClassifierIdle ==
    /\ text = ""
    /\ scores = [JANNAT |-> 0, SKY |-> 0, NATURE |-> 0]
    /\ chosen = NoDesign
    /\ clPc = "idle"

NumeralIdle ==
    /\ num = 0
    /\ numeral = ""
    /\ numPc = "idle"

\* no call is in flight
PairIdle == calls = <<>>

\* the App component is not mounted
AppIdle == app = <<>>

Init ==
    /\ impl \in Impl
    /\ startAyah \in StartAyahs
    /\ endAyah \in EndAyahs(startAyah)
    /\ pc = "start"
    /\ CallInit
    /\ ClassifierIdle
    /\ NumeralIdle
    /\ PairIdle
    /\ AppIdle

(***************************************************************************)
(* The range of the request.                                               *)
(***************************************************************************)
\* a variant that takes any given end bound
ActualEndAyahUnchecked(start, end) == IF Truthy(end) THEN end.value ELSE start

ActualEndAyah(start, end) ==
    IF Truthy(end) /\ end.value >= start THEN end.value ELSE start

Limit(start, end) == ActualEndAyah(start, end) - start + 1
Offset(start) == start - 1

\* the call builds the URL and calls fetch
SendRequest ==
    /\ pc = "start"
    /\ requests' = Append(requests, [api |-> "quran",
                                     offset |-> Offset(startAyah),
                                     limit |-> Limit(startAyah, endAyah)])
    /\ pc' = "fetch"
    /\ UNCHANGED <<callVars, malformed, respVars, loopVars, design, aiAnswer, result, error,
                   clVars, numVars, calls, app>>

Throw(msg) ==
    /\ pc' = "error"
    /\ error' = msg

\* await fetch(apiUrl): the promise rejects, or resolves with response.ok false or true
FetchResolves ==
    /\ pc = "fetch"
    /\ \/ /\ Throw("TypeError: Failed to fetch")
          /\ malformed' = TRUE
       \/ /\ Throw("Quran API Error")
          /\ malformed' = TRUE
       \/ /\ pc' = "json"
          /\ UNCHANGED <<malformed, error>>
    /\ UNCHANGED <<callVars, requests, respVars, loopVars, design, aiAnswer, result, clVars,
                   numVars, calls, app>>

\* a variant that checks the source edition only
EditionsFoundArabicOnly(arabicEd, otherEd) == arabicEd # 0

\* the editions check: arabicEd and otherEd are indexes, 0 when find returned undefined
EditionsFound(arabicEd, otherEd) == arabicEd # 0 /\ otherEd # 0

\* json.data of a response with the editions of shape: the entries without their ayahs
DataOf(shape) ==
    [k \in 1..Len(shape) |-> [edition |-> shape[k], englishName |-> EnglishName(shape[k])]]

\* the ayahs of an entry, in a response that holds the verses ar and the translations tr
AyahsOf(entry, ar, tr) == IF entry.edition = Uthmani THEN ar ELSE tr

NoEntry == [edition |-> [identifier |-> "", language |-> "", type |-> ""], englishName |-> ""]

\* what the two find calls and the check after them give for a response with the
\* editions of shape
Found(im, shape) ==
    LET data == DataOf(shape)
        a == FindArabicEd(im, data)
        o == FindOtherEd(im, data, a)
    IN  [found |-> EditionsFound(a, o),
         arabicEd |-> IF a # 0 THEN data[a] ELSE NoEntry,
         otherEd |-> IF o # 0 THEN data[o] ELSE NoEntry,
         missing |-> MissingEdition(shape)]

\* the message of the error for a response without a data array
NoDataError(im) ==
    IF im = Part000 THEN "Invalid response format from Quran API: data array missing"
    ELSE "TypeError: data.data.find"

\* the message of the error for a missing edition
NoEditionError(im) ==
    IF im = Part000
    THEN "Invalid response format from Quran API: missing Arabic or Translation editions"
    ELSE "Invalid response format from Quran API"

\* a variant that reads the translations of all segments
ContextTextAllSegments(im, segs) ==
    JoinSpace([k \in 1..Len(segs) |-> segs[k].translation])

\* segments[0]?.translation || ""
ContextText(im, segs) ==
    IF segs = <<>> THEN ""
    ELSE IF im = Part000 THEN segs[1].translation
    ELSE SubSeq(segs[1].translation, 1,
                IF Len(segs[1].translation) < 500 THEN Len(segs[1].translation) ELSE 500)

Return(segs, d) ==
    /\ design' = d
    /\ result' = [returned |-> TRUE, segments |-> segs, design |-> d]
    /\ pc' = "done"

\* steps 2 and 3, run without suspension once the editions are found: the grouping,
\* then part_000 classifies the text and returns, and geminiService.ts asks the model
GroupAndDesign(ar, tr, name) ==
    LET st == Grouping(impl, ar, tr, name)
        best == SelectBest(Scores(ContextText(impl, st.segments)))
    IN  /\ i' = st.i
        /\ currentChunkArabic' = st.currentChunkArabic
        /\ currentChunkTrans' = st.currentChunkTrans
        /\ currentLength' = st.currentLength
        /\ segments' = st.segments
        /\ chunks' = st.chunks
        /\ IF st.threw
           THEN /\ Throw("TypeError: pushSegment")
                /\ UNCHANGED <<requests, design, result>>
           ELSE IF impl = Part000
           THEN /\ \E r \in RandomIndex :
                      Return(st.segments, DesignOf(best, r))
                /\ UNCHANGED <<requests, error>>
           ELSE /\ design' = DefaultDesign
                /\ requests' = Append(requests,
                                  [api |-> "genai",
                                   context |-> ContextText(impl, st.segments)])
                /\ pc' = "ai"
                /\ UNCHANGED <<result, error>>

\* await response.json(), the checks of the response, and the rest of the call up to
\* its next suspension
JsonResolves ==
    /\ pc = "json"
    /\ \/ /\ Throw("SyntaxError: response.json")
          /\ malformed' = TRUE
          /\ UNCHANGED <<respVars, loopVars, requests, design, result>>
       \/ /\ \E kind \in JsonKinds \ {"invalid", "array"} : Throw(NoDataError(impl))
          /\ malformed' = TRUE
          /\ UNCHANGED <<respVars, loopVars, requests, design, result>>
       \/ \E f \in {Found(impl, shape) : shape \in EditionLists} :
            /\ malformed' = f.missing
            /\ IF ~ f.found
               THEN /\ Throw(NoEditionError(impl))
                    /\ UNCHANGED <<respVars, loopVars, requests, design, result>>
               ELSE \E ar \in ArabicAyahLists(requests[1].offset, requests[1].limit) :
                    \E tr \in TransAyahLists(requests[1].offset, Len(ar)) :
                       /\ arabicAyahs' = AyahsOf(f.arabicEd, ar, tr)
                       /\ transAyahs' = AyahsOf(f.otherEd, ar, tr)
                       /\ surahName' = f.arabicEd.englishName
                       /\ GroupAndDesign(AyahsOf(f.arabicEd, ar, tr),
                                         AyahsOf(f.otherEd, ar, tr),
                                         f.arabicEd.englishName)
    /\ UNCHANGED <<callVars, aiAnswer, clVars, numVars, calls, app>>

\* the answers of the model the design step is run with
AiAnswers ==
    {NoAnswer,
     [NoAnswer EXCEPT !.backgroundType = SKY],
     [NoAnswer EXCEPT !.textColor = "black"],
     [NoAnswer EXCEPT !.opacity = 60],
     [backgroundType |-> JANNAT, textColor |-> "black", opacity |-> 60]}

\* geminiService.ts: the answer of the model overrides the default, a failure of the
\* import or of the request keeps it
AiResolves ==
    /\ pc = "ai"
    /\ \/ /\ Return(segments, design)
          /\ aiAnswer' = NoAnswer
       \/ \E ans \in AiAnswers :
            /\ aiAnswer' = ans
            /\ Return(segments,
                   [backgroundType |-> IF ans.backgroundType # "" THEN ans.backgroundType
                                       ELSE design.backgroundType,
                    textColor |-> IF ans.textColor # "" THEN ans.textColor
                                  ELSE design.textColor,
                    opacity |-> IF ans.opacity # 0 THEN ans.opacity ELSE design.opacity])
    /\ UNCHANGED <<callVars, requests, malformed, respVars, loopVars, error, clVars, numVars,
                   calls, app>>

Next ==
    \/ SendRequest
    \/ FetchResolves
    \/ JsonResolves
    \/ AiResolves

Spec == Init /\ [][Next]_vars

(***************************************************************************)
(* getDesignFromText on its own: a text of at most MaxWords words.         *)
(***************************************************************************)
Words == {"mountain", "river", "Sun", "sunday", "Garden", "mercy", "moon", "EARTH"}

RECURSIVE TextsOf(_)
TextsOf(n) ==
    IF n = 0 THEN {""}
    ELSE TextsOf(n - 1) \cup Words
            \cup {t \o " " \o w : t \in TextsOf(n - 1) \ {""}, w \in Words}

Texts == TextsOf(MaxWords)

InitClassify ==
    /\ impl = Part000
    /\ startAyah = 1
    /\ endAyah = Undefined
    /\ pc = "idle"
    /\ CallInit
    /\ text \in Texts
    /\ scores = [JANNAT |-> 0, SKY |-> 0, NATURE |-> 0]
    /\ chosen = NoDesign
    /\ clPc = "ready"
    /\ NumeralIdle
    /\ PairIdle
    /\ AppIdle

Classify ==
    /\ clPc = "ready"
    /\ scores' = Scores(text)
    /\ \E r \in RandomIndex : chosen' = getDesignFromText(text, r)
    /\ clPc' = "done"
    /\ UNCHANGED <<callVars, pc, requests, malformed, respVars, loopVars, design, result,
                   error, text, numVars, aiAnswer, calls, app>>

NextClassify == Classify

SpecClassify == InitClassify /\ [][NextClassify]_vars

(***************************************************************************)
(* convertToArabicNumerals on its own: a number of at most MaxNumber.      *)
(***************************************************************************)
InitNumeral ==
    /\ impl = Part000
    /\ startAyah = 1
    /\ endAyah = Undefined
    /\ pc = "idle"
    /\ CallInit
    /\ ClassifierIdle
    /\ num \in 0..MaxNumber
    /\ numeral = ""
    /\ numPc = "ready"
    /\ PairIdle
    /\ AppIdle

Convert ==
    /\ numPc = "ready"
    /\ numeral' = convertToArabicNumerals(num)
    /\ numPc' = "done"
    /\ UNCHANGED <<callVars, pc, requests, malformed, respVars, loopVars, design, result,
                   error, clVars, num, aiAnswer, calls, app>>

NextNumeral == Convert

SpecNumeral == InitNumeral /\ [][NextNumeral]_vars

(***************************************************************************)
(* Two calls of fetchVerseAndDesign in flight together: each call has its  *)
(* own parameters and locals, and the calls take turns at their            *)
(* suspension points (await fetch, await response.json(), the awaits of    *)
(* the AI design step).                                                    *)
(***************************************************************************)
Calls == {1, 2}

\* verse.text.length of the verses the two calls get
PairLens == {200, 451}
AyahListsOfLens(lens, offset, limit) ==
    {ar \in ArabicAyahLists(offset, limit) : \A k \in 1..Len(ar) : Len(ar[k].text) \in lens}
PairAyahLists(offset, limit) == AyahListsOfLens(PairLens, offset, limit)

\* a call of fetchVerseAndDesign(surah, start, end) before its first statement
CallWith(im, start, end) ==
    [impl |-> im, startAyah |-> start, endAyah |-> end, pc |-> "start",
     requests |-> <<>>, arabicAyahs |-> <<>>, transAyahs |-> <<>>, surahName |-> "",
     segments |-> <<>>, chunks |-> <<>>, contextText |-> "",
     scores |-> [JANNAT |-> 0, SKY |-> 0, NATURE |-> 0],
     design |-> NoDesign, result |-> NoResult, error |-> NoError]

\* a call of fetchVerseAndDesign(surah, 1, MaxPairVerses)
NewCall(im) == CallWith(im, 1, Num(MaxPairVerses))

InitPair ==
    /\ impl = Part000
    /\ startAyah = 1
    /\ endAyah = Undefined
    /\ pc = "idle"
    /\ CallInit
    /\ ClassifierIdle
    /\ NumeralIdle
    /\ \E im \in Impl : calls = [c \in Calls |-> NewCall(im)]
    /\ AppIdle

\* a variant with the segment list kept outside the function, where the calls share it
CallLocalsShared(c, cs) ==
    [LoopStart EXCEPT !.segments = cs[3 - c].segments, !.chunks = cs[3 - c].chunks]

\* the locals the grouping of call c starts with: declared inside the function, so new
\* and empty in every call
CallLocals(c, cs) == LoopStart

PairSendRequest(c) ==
    /\ calls[c].pc = "start"
    /\ calls' = [calls EXCEPT ![c] =
          [@ EXCEPT !.requests = Append(@, [api |-> "quran",
                                            offset |-> Offset(calls[c].startAyah),
                                            limit |-> Limit(calls[c].startAyah,
                                                            calls[c].endAyah)]),
                    !.pc = "fetch"]]
    /\ UNCHANGED <<singleVars, app>>

PairThrow(c, msg) ==
    calls' = [calls EXCEPT ![c] = [@ EXCEPT !.pc = "error", !.error = msg]]

PairFetchResolves(c) ==
    /\ calls[c].pc = "fetch"
    /\ \/ PairThrow(c, "TypeError: Failed to fetch")
       \/ PairThrow(c, "Quran API Error")
       \/ calls' = [calls EXCEPT ![c] = [@ EXCEPT !.pc = "json"]]
    /\ UNCHANGED <<singleVars, app>>

PairGroupAndDesign(c, ar, tr, name) ==
    LET im == calls[c].impl
        st == GroupingFrom(CallLocals(c, calls), im, ar, tr, name)
        ctx == ContextText(im, st.segments)
        sc == Scores(ctx)
        best == SelectBest(sc)
        got == [calls[c] EXCEPT !.arabicAyahs = ar, !.transAyahs = tr, !.surahName = name,
                                !.segments = st.segments, !.chunks = st.chunks]
    IN  IF st.threw
        THEN calls' = [calls EXCEPT ![c] =
                 [got EXCEPT !.pc = "error", !.error = "TypeError: pushSegment"]]
        ELSE IF im = Part000
        THEN \E r \in RandomIndex :
               calls' = [calls EXCEPT ![c] =
                 [got EXCEPT !.contextText = ctx, !.scores = sc,
                             !.design = DesignOf(best, r),
                             !.result = [returned |-> TRUE, segments |-> st.segments,
                                         design |-> DesignOf(best, r)],
                             !.pc = "done"]]
        ELSE calls' = [calls EXCEPT ![c] =
                 [got EXCEPT !.contextText = ctx, !.design = DefaultDesign,
                             !.requests = Append(@, [api |-> "genai", context |-> ctx]),
                             !.pc = "ai"]]

\* await response.json() of call c, with verses of the given lengths
PairJsonResolvesWith(c, lens) ==
    /\ calls[c].pc = "json"
    /\ \/ PairThrow(c, "SyntaxError: response.json")
       \/ \E kind \in JsonKinds \ {"invalid", "array"} : PairThrow(c, NoDataError(calls[c].impl))
       \/ \E f \in {Found(calls[c].impl, shape) : shape \in EditionLists} :
            IF ~ f.found
            THEN PairThrow(c, NoEditionError(calls[c].impl))
            ELSE \E ar \in AyahListsOfLens(lens, calls[c].requests[1].offset,
                                            calls[c].requests[1].limit) :
                 \E tr \in TransAyahLists(calls[c].requests[1].offset, Len(ar)) :
                    PairGroupAndDesign(c, AyahsOf(f.arabicEd, ar, tr),
                                       AyahsOf(f.otherEd, ar, tr),
                                       f.arabicEd.englishName)
    /\ UNCHANGED <<singleVars, app>>

PairJsonResolves(c) == PairJsonResolvesWith(c, PairLens)

PairReturn(c, d) ==
    calls' = [calls EXCEPT ![c] =
        [@ EXCEPT !.design = d,
                  !.result = [returned |-> TRUE, segments |-> calls[c].segments, design |-> d],
                  !.pc = "done"]]

PairAiResolves(c) ==
    /\ calls[c].pc = "ai"
    /\ \/ PairReturn(c, calls[c].design)
       \/ \E ans \in AiAnswers :
            PairReturn(c,
                [backgroundType |-> IF ans.backgroundType # "" THEN ans.backgroundType
                                    ELSE calls[c].design.backgroundType,
                 textColor |-> IF ans.textColor # "" THEN ans.textColor
                               ELSE calls[c].design.textColor,
                 opacity |-> IF ans.opacity # 0 THEN ans.opacity
                             ELSE calls[c].design.opacity])
    /\ UNCHANGED <<singleVars, app>>

NextPair ==
    \E c \in Calls :
        \/ PairSendRequest(c)
        \/ PairFetchResolves(c)
        \/ PairJsonResolves(c)
        \/ PairAiResolves(c)

SpecPair == InitPair /\ [][NextPair]_vars

(***************************************************************************)
(* The App component (src/App.tsx): the verse selection, the Generate      *)
(* button and the cards. The call of fetchVerseAndDesign that              *)
(* handleFetchVerse awaits is calls[1].                                    *)
(***************************************************************************)
\* the verse numbers the two selects offer (renderAyahOptions)
AyahOptions == {1, 2}

\* null, as the value of a number | null state
Null == [given |-> FALSE, value |-> 0]

\* useState: the initial state of the component; alerts counts the alert() calls,
\* fetches the presses of the Generate button, shown is the result the cards were last
\* built from (history)
\* After mounting, the preview effect has run once for the initial surah: its request is
\* previews[1]. selections counts the calls of handleSurahChange (history), and every
\* preview request carries the count it was started at. outcome tells how the last
\* generation ended (history). downloads holds the calls of handleDownload in progress,
\* oldest first, and downloadsStarted counts them (history).
AppStart(im) ==
    [impl |-> im, startAyah |-> 1, endAyah |-> 1, isRangeMode |-> TRUE,
     loading |-> FALSE, cards |-> <<>>, alerts |-> 0, fetches |-> 0, shown |-> NoResult,
     selectedSurah |-> 1, previewVerses |-> <<>>, loadingVerses |-> TRUE,
     previews |-> <<[surah |-> 1, id |-> 0, pc |-> "fetch"]>>, selections |-> 0,
     outcome |-> "", downloadingId |-> Null, downloads |-> <<>>, downloadsStarted |-> 0]

InitApp ==
    /\ impl = Part000
    /\ startAyah = 1
    /\ endAyah = Undefined
    /\ pc = "idle"
    /\ CallInit
    /\ ClassifierIdle
    /\ NumeralIdle
    /\ PairIdle
    /\ \E im \in Impl : app = AppStart(im)

\* a variant that leaves endAyah alone
HandleStartAyahChangeStartOnly ==
    /\ \E val \in AyahOptions : app' = [app EXCEPT !.startAyah = val]
    /\ UNCHANGED <<singleVars, calls>>

\* handleStartAyahChange(val)
HandleStartAyahChange ==
    /\ \E val \in AyahOptions :
          app' = [app EXCEPT !.startAyah = val,
                             !.endAyah = IF ~ app.isRangeMode \/ val > app.endAyah
                                         THEN val ELSE @]
    /\ UNCHANGED <<singleVars, calls>>

\* the end select: setEndAyah(Number(e.target.value)), its options start at startAyah
SetEndAyah ==
    /\ app.isRangeMode
    /\ \E val \in {v \in AyahOptions : v >= app.startAyah} : app' = [app EXCEPT !.endAyah = val]
    /\ UNCHANGED <<singleVars, calls>>

\* setIsRangeMode(!isRangeMode)
ToggleRangeMode ==
    /\ app' = [app EXCEPT !.isRangeMode = ~ @]
    /\ UNCHANGED <<singleVars, calls>>

\* a variant that takes the opacity of baseSettings
NewCardsBaseOpacity(segs, d) ==
    [k \in 1..Len(segs) |->
        [verse |-> segs[k], backgroundType |-> d.backgroundType, textColor |-> d.textColor,
         opacity |-> 60, fontSize |-> 55, showTranslation |-> TRUE]]

\* newCards = segments.map(segment => ({ verse: segment, ...design, ...baseSettings }))
NewCards(segs, d) ==
    [k \in 1..Len(segs) |->
        [verse |-> segs[k], backgroundType |-> d.backgroundType, textColor |-> d.textColor,
         opacity |-> d.opacity, fontSize |-> 55, showTranslation |-> TRUE]]

\* a variant that clears the cards when a generation starts
CardsClearedWhileLoading(cards) == <<>>

\* the cards while a generation is loading: setLoading(true) does not clear them
CardsWhileLoading(cards) == cards

\* a variant whose Generate button stays enabled
GenerateAlwaysEnabled == FALSE

\* disabled={loading} of the Generate button
GenerateDisabled == app.loading

\* handleFetchVerse, up to its await: the button is disabled while loading; limit bounds
\* the number of presses. calls holds the awaited calls, oldest first.
HandleFetchVerseWithin(limit) ==
    /\ ~ GenerateDisabled
    /\ app.fetches < limit
    /\ IF app.isRangeMode /\ app.endAyah < app.startAyah
       THEN /\ app' = [app EXCEPT !.alerts = @ + 1, !.fetches = @ + 1]
            /\ UNCHANGED calls
       ELSE /\ app' = [app EXCEPT !.loading = TRUE, !.fetches = @ + 1,
                                   !.cards = CardsWhileLoading(@)]
            /\ calls' = Append(calls,
                               CallWith(app.impl, app.startAyah,
                                        IF app.isRangeMode THEN Num(app.endAyah)
                                        ELSE Undefined))
    /\ UNCHANGED singleVars

HandleFetchVerse == HandleFetchVerseWithin(MaxFetches)

\* handleFetchVerse after its await: the cards of the result, or the alert of the catch
\* block, and the finally block
FetchSettles ==
    /\ calls # <<>>
    /\ \/ /\ calls[1].pc = "done"
          /\ app' = [app EXCEPT
                        !.cards = NewCards(calls[1].result.segments, calls[1].result.design),
                        !.shown = calls[1].result,
                        !.outcome = "done",
                        !.loading = FALSE]
       \/ /\ calls[1].pc = "error"
          /\ app' = [app EXCEPT !.alerts = @ + 1, !.outcome = "error", !.loading = FALSE]
    /\ calls' = Tail(calls)
    /\ UNCHANGED singleVars

\* the steps of the awaited call
AppCallSteps ==
    /\ calls # <<>>
    /\ \/ PairSendRequest(1)
       \/ PairFetchResolves(1)
       \/ PairJsonResolves(1)
       \/ PairAiResolves(1)

NextApp ==
    \/ HandleStartAyahChange
    \/ SetEndAyah
    \/ ToggleRangeMode
    \/ HandleFetchVerse
    \/ AppCallSteps
    \/ FetchSettles

SpecApp == InitApp /\ [][NextApp]_vars

(***************************************************************************)
(* The surah select and the verse preview (src/App.tsx, lines 153-173 and  *)
(* 331-335): every change of selectedSurah runs the effect, which starts   *)
(* a request for the verses of that surah; nothing cancels an earlier      *)
(* request, so several can be in flight, and they resolve in any order.    *)
(***************************************************************************)
\* the surahs the select offers
Surahs == {1, 2}

\* data.data.ayahs of the response for a surah
PreviewAyahs(surah) == [k \in AyahOptions |-> [surah |-> surah, numberInSurah |-> k]]

\* fetchVersesPreview up to its first await
FetchVersesPreview(a) ==
    [a EXCEPT !.loadingVerses = TRUE,
              !.previewVerses = <<>>,
              !.previews = Append(@, [surah |-> a.selectedSurah, id |-> a.selections,
                                      pc |-> "fetch"])]

\* handleSurahChange(newSurah)
SurahChanged(a, newSurah) ==
    [a EXCEPT !.selectedSurah = newSurah, !.startAyah = 1, !.endAyah = 1,
              !.selections = @ + 1]

\* the surah select: handleSurahChange, then the effect of the changed selectedSurah
SelectSurah ==
    /\ app.selections < MaxSelections
    /\ \E newSurah \in Surahs \ {app.selectedSurah} :
          app' = FetchVersesPreview(SurahChanged(app, newSurah))
    /\ UNCHANGED <<singleVars, calls>>

\* the requests in flight without request k
WithoutPreview(a, k) ==
    [j \in 1..(Len(a.previews) - 1) |-> IF j < k THEN a.previews[j] ELSE a.previews[j + 1]]

\* the finally block of fetchVersesPreview, which ends request k
PreviewFinally(a, k) == [a EXCEPT !.loadingVerses = FALSE, !.previews = WithoutPreview(a, k)]

\* await fetch(...) of request k: the response, or a rejection that the catch block logs
PreviewFetchResolves ==
    /\ \E k \in 1..Len(app.previews) :
          /\ app.previews[k].pc = "fetch"
          /\ \/ app' = [app EXCEPT !.previews[k].pc = "json"]
             \/ app' = PreviewFinally(app, k)
    /\ UNCHANGED <<singleVars, calls>>

\* await response.json() of request k: a body with data.ayahs, a body without, or an
\* exception
PreviewJsonResolves ==
    /\ \E k \in 1..Len(app.previews) :
          /\ app.previews[k].pc = "json"
          /\ \/ app' = PreviewFinally(
                           [app EXCEPT !.previewVerses = PreviewAyahs(app.previews[k].surah)],
                           k)
             \/ app' = PreviewFinally(app, k)
    /\ UNCHANGED <<singleVars, calls>>

NextPreview ==
    \/ SelectSurah
    \/ PreviewFetchResolves
    \/ PreviewJsonResolves

SpecPreview == InitApp /\ [][NextPreview]_vars

(***************************************************************************)
(* The Generate button with the awaited call answered by verses that each  *)
(* fill a card (src/App.tsx, lines 225-267 and 331-342): in SpecGenerate   *)
(* the button is pressed up to MaxGenerations times, in SpecSelect the     *)
(* surah select takes part as well. The preview requests are followed in   *)
(* SpecPreview.                                                            *)
(***************************************************************************)
\* verse.text.length of the verses the awaited call gets
UiLens == {451}

\* the surah select: handleSurahChange(Number(e.target.value))
HandleSurahChange ==
    /\ app.selections < MaxSelections
    /\ \E newSurah \in Surahs \ {app.selectedSurah} : app' = SurahChanged(app, newSurah)
    /\ UNCHANGED <<singleVars, calls>>

\* the Generate button
Generate == HandleFetchVerseWithin(MaxGenerations)

\* the steps of the awaited call
GenerateCallSteps ==
    /\ calls # <<>>
    /\ \/ PairSendRequest(1)
       \/ PairFetchResolves(1)
       \/ PairJsonResolvesWith(1, UiLens)
       \/ PairAiResolves(1)

NextGenerate ==
    \/ HandleStartAyahChange
    \/ SetEndAyah
    \/ ToggleRangeMode
    \/ Generate
    \/ GenerateCallSteps
    \/ FetchSettles

SpecGenerate == InitApp /\ [][NextGenerate]_vars

\* every awaited promise settles, and the continuation of a settled promise runs
SpecGenerateFair ==
    SpecGenerate /\ WF_vars(GenerateCallSteps) /\ WF_vars(FetchSettles)

NextSelect ==
    \/ HandleSurahChange
    \/ HandleStartAyahChange
    \/ SetEndAyah
    \/ ToggleRangeMode
    \/ HandleFetchVerse
    \/ GenerateCallSteps
    \/ FetchSettles

SpecSelect == InitApp /\ [][NextSelect]_vars

(***************************************************************************)
(* The Download buttons of the cards (src/App.tsx, lines 269-329 and       *)
(* 563-574). The button of a card is disabled only while downloadingId is  *)
(* the index of that card, so a download of another card can start while   *)
(* one is in progress.                                                     *)
(***************************************************************************)
\* the indexes of the cards on the page (cards.map((cardConfig, index) => ...))
CardIndexes == 0..(Len(app.cards) - 1)

\* disabled={downloadingId === index} of the Download button of a card
DownloadDisabled(index) == app.downloadingId = Num(index)

\* handleDownload(index, verse) up to its first await
HandleDownload ==
    /\ app.downloadsStarted < MaxDownloads
    /\ \E index \in CardIndexes :
          /\ ~ DownloadDisabled(index)
          /\ app' = [app EXCEPT !.downloadingId = Num(index),
                                !.downloads = Append(@, [index |-> index, pc |-> "first"]),
                                !.downloadsStarted = @ + 1]
    /\ UNCHANGED <<singleVars, calls>>

\* the downloads in progress without download k
WithoutDownload(a, k) ==
    [j \in 1..(Len(a.downloads) - 1) |-> IF j < k THEN a.downloads[j] ELSE a.downloads[j + 1]]

\* the finally block of handleDownload, which ends download k
DownloadFinally(a, k) == [a EXCEPT !.downloadingId = Null, !.downloads = WithoutDownload(a, k)]

\* the first attempt of download k (the fonts, the delay, toPng with cacheBust): the image
\* is saved, or toPng raises and the second attempt starts, or an earlier await raises and
\* the outer catch block alerts
DownloadFirstSettles ==
    /\ \E k \in 1..Len(app.downloads) :
          /\ app.downloads[k].pc = "first"
          /\ \/ app' = DownloadFinally(app, k)
             \/ app' = [app EXCEPT !.downloads[k].pc = "second"]
             \/ app' = DownloadFinally([app EXCEPT !.alerts = @ + 1], k)
    /\ UNCHANGED <<singleVars, calls>>

\* the second attempt of download k (toPng without cacheBust): the image is saved, or the
\* outer catch block alerts
DownloadSecondSettles ==
    /\ \E k \in 1..Len(app.downloads) :
          /\ app.downloads[k].pc = "second"
          /\ \/ app' = DownloadFinally(app, k)
             \/ app' = DownloadFinally([app EXCEPT !.alerts = @ + 1], k)
    /\ UNCHANGED <<singleVars, calls>>

NextDownload ==
    \/ SetEndAyah
    \/ HandleFetchVerse
    \/ GenerateCallSteps
    \/ FetchSettles
    \/ HandleDownload
    \/ DownloadFirstSettles
    \/ DownloadSecondSettles

SpecDownload == InitApp /\ [][NextDownload]_vars

(***************************************************************************)
(* Properties.                                                             *)
(***************************************************************************)
\* the grouping ran to its end without raising
Grouped == pc \in {"ai", "done"}

RECURSIVE Flatten(_)
Flatten(cs) == IF cs = <<>> THEN <<>> ELSE Head(cs) \o Flatten(Tail(cs))

RECURSIVE SumLen(_)
SumLen(chunk) == IF chunk = <<>> THEN 0 ELSE Len(Head(chunk).text) + SumLen(Tail(chunk))

LensOf(ayahs) == [k \in 1..Len(ayahs) |-> Len(ayahs[k].text)]
LabelsOf(segs) == [k \in 1..Len(segs) |-> segs[k].ayah]

\* the verses of the response are numbered contiguously in increasing order
Contiguous(ayahs) ==
    \A k \in 1..(Len(ayahs) - 1) : ayahs[k + 1].numberInSurah = ayahs[k].numberInSurah + 1

\* the chunks pushed so far are consecutive non-empty runs of the input, in order
PartitionOfPrefix ==
    /\ Len(segments) = Len(chunks)
    /\ \A k \in 1..Len(chunks) : chunks[k] # <<>> /\ Contiguous(chunks[k])
    /\ \A k \in 1..(Len(chunks) - 1) :
          chunks[k + 1][1].numberInSurah
              = chunks[k][Len(chunks[k])].numberInSurah + 1
    /\ Len(Flatten(chunks)) <= Len(arabicAyahs)
    /\ Flatten(chunks) = SubSeq(arabicAyahs, 1, Len(Flatten(chunks)))

\* C1: for a non-empty response numbered contiguously, the chunks pushed by the
\* grouping, read in order, are the input verses: one segment per chunk, every chunk a
\* non-empty run of consecutive verses that starts right after the previous chunk, and
\* together exactly the input, nothing dropped, repeated or reordered.
C1_SegmentsPartitionInput ==
    (arabicAyahs # <<>> /\ Contiguous(arabicAyahs)) =>
        /\ PartitionOfPrefix
        /\ Flatten(chunks) = arabicAyahs

\* what holds of C1 in both implementations: the pushed chunks always partition a prefix
\* of the input, all of it when the grouping ends without raising, and part_000 never
\* raises in the grouping
C1_PartitionUnlessRaised ==
    /\ PartitionOfPrefix
    /\ (Grouped \/ (impl = Part000 /\ arabicAyahs # <<>>)) => Flatten(chunks) = arabicAyahs

\* C2: a segment of more than one verse holds at most 450 characters of source text.
C2_MultiVerseWithinCapacity ==
    \A k \in 1..Len(chunks) : Len(chunks[k]) > 1 => SumLen(chunks[k]) <= 450

C2_Witness ==
    /\ Grouped
    /\ \E k \in 1..Len(chunks) : Len(chunks[k]) > 1 /\ SumLen(chunks[k]) = 450
    /\ \E k \in 1..Len(chunks) : Len(chunks[k]) = 1 /\ SumLen(chunks[k]) > 450

\* C3: a verse longer than 450 characters is alone in its segment, wherever it stands,
\* and it is in exactly one segment.
C3_OversizedVerseAlone ==
    /\ \A k \in 1..Len(chunks) : \A j \in 1..Len(chunks[k]) :
          Len(chunks[k][j].text) > 450 => Len(chunks[k]) = 1
    /\ (Grouped \/ impl = Part000) =>
          \A n \in 1..Len(arabicAyahs) :
              Len(arabicAyahs[n].text) > 450 =>
                  Cardinality({k \in 1..Len(chunks) : chunks[k] = <<arabicAyahs[n]>>}) = 1

C3_Witness ==
    /\ Grouped
    /\ LensOf(arabicAyahs) = <<0, 451, 0>>
    /\ Len(chunks) = 3

\* C4: a group is closed only when the next verse does not fit: the length of every
\* segment but the last plus the length of the first verse of the next one exceeds 450;
\* lengths 200, 100, 200 give verses 1-2 and verse 3.
C4_SegmentsMaximal ==
    /\ \A k \in 1..(Len(chunks) - 1) :
          SumLen(chunks[k]) + Len(chunks[k + 1][1].text) > 450
    /\ (Grouped /\ startAyah = 1 /\ LensOf(arabicAyahs) = <<200, 100, 200>>) =>
          LabelsOf(segments) = <<"1-2", "3">>

C4_Witness ==
    /\ Grouped
    /\ startAyah = 1
    /\ LensOf(arabicAyahs) = <<200, 100, 200>>
    /\ Len(segments) = 2

\* C5: the label of a segment is its first verse number when it holds one verse and
\* first-last when it holds more.
C5_AyahRangeLabel ==
    /\ \A k \in 1..Len(segments) :
          segments[k].ayah =
              IF Len(chunks[k]) = 1 THEN ToString(chunks[k][1].numberInSurah)
              ELSE ToString(chunks[k][1].numberInSurah) \o "-"
                      \o ToString(chunks[k][Len(chunks[k])].numberInSurah)
    /\ AyahLabel(5, 5) = "5"
    /\ AyahLabel(5, 8) = "5-8"

C5_Witness ==
    /\ Grouped
    /\ LabelsOf(segments) = <<"10-11", "12">>

\* the highest score, and the first category in the order NATURE, SKY, JANNAT that has it
MaxScore(sc) == CHOOSE m \in {sc[t] : t \in BackgroundType} : \A t \in BackgroundType : sc[t] <= m
FirstWithMax(sc) ==
    IF sc[NATURE] = MaxScore(sc) THEN NATURE
    ELSE IF sc[SKY] = MaxScore(sc) THEN SKY
    ELSE JANNAT

\* C6: the category with the highest score wins, a tie goes to the first of NATURE, SKY,
\* JANNAT; "mountain river" scores nature 1, paradise 1, sky 0 and gives NATURE.
C6_HighestScoreTiesByPriority ==
    /\ (clPc = "done" /\ MaxScore(scores) >= 1) =>
          chosen.backgroundType = FirstWithMax(scores)
    /\ (clPc = "done" /\ text = "mountain river") =>
          /\ scores = [NATURE |-> 1, JANNAT |-> 1, SKY |-> 0]
          /\ chosen.backgroundType = NATURE

C6_Witness ==
    /\ clPc = "done"
    /\ text = "mountain river"
    /\ chosen.backgroundType = NATURE

ClassifyAs(t) == Classify /\ chosen'.backgroundType = t

\* C7: with no keyword in the text the result is one of the three categories, and each
\* of the three can be the result.
C7_ZeroScoreAnyCategory ==
    /\ (clPc = "done" /\ MaxScore(scores) = 0) => chosen.backgroundType \in BackgroundType
    /\ (clPc = "ready" /\ MaxScore(Scores(text)) = 0) =>
          \A t \in BackgroundType : ENABLED ClassifyAs(t)

C7_Witness ==
    /\ clPc = "done"
    /\ text = ""
    /\ chosen.backgroundType = JANNAT

\* the translation pushSegment is to write for the chunk that starts at index first of
\* the response, a missing translation being the empty text with the verse's number
ExpectedTranslation(chunk, first) ==
    JoinSpace([j \in 1..Len(chunk) |->
        IF first + j - 1 <= Len(transAyahs)
        THEN transAyahs[first + j - 1].text \o " ("
                \o ToString(transAyahs[first + j - 1].numberInSurah) \o ")"
        ELSE " (" \o ToString(chunk[j].numberInSurah) \o ")"])

ExpectedArabic(chunk) ==
    JoinSpace([j \in 1..Len(chunk) |->
        chunk[j].text \o " @" \o convertToArabicNumerals(chunk[j].numberInSurah)])

\* C8: with fewer translations than verses the call does not throw, and every verse is
\* in its segment with its source text and, where the translation is missing, an empty
\* translation with the verse's own number.
C8_MissingTranslationSubstituted ==
    Len(transAyahs) < Len(arabicAyahs) =>
        /\ pc # "error"
        /\ Flatten(chunks) = arabicAyahs
        /\ \A k \in 1..Len(segments) :
              /\ segments[k].arabic = ExpectedArabic(chunks[k])
              /\ segments[k].translation =
                    ExpectedTranslation(chunks[k], Len(Flatten(SubSeq(chunks, 1, k - 1))) + 1)

\* C9: a malformed response ends the call with one error: nothing is returned, the
\* grouping has not run, one request was made and nothing more happens.
C9_MalformedResponseIsTerminalError ==
    /\ malformed =>
          /\ pc = "error"
          /\ error # NoError
          /\ result = NoResult
          /\ design = NoDesign
          /\ segments = <<>> /\ chunks = <<>> /\ i = 0
          /\ Len(requests) = 1
    /\ pc = "error" => ~ ENABLED Next

C9_Witness ==
    /\ malformed
    /\ pc = "error"
    /\ error = "Invalid response format from Quran API: missing Arabic or Translation editions"

\* C10: the request asks for the single verse startAyah when endAyah is omitted or
\* below startAyah, for endAyah - startAyah + 1 verses otherwise, and never for fewer
\* than one.
C10_RangeNormalized ==
    requests # <<>> =>
        /\ requests[1].offset = startAyah - 1
        /\ (~ endAyah.given \/ endAyah.value < startAyah) => requests[1].limit = 1
        /\ (endAyah.given /\ endAyah.value >= startAyah) =>
              requests[1].limit = endAyah.value - startAyah + 1
        /\ requests[1].limit >= 1

C10_Witness ==
    /\ requests # <<>>
    /\ endAyah.given /\ endAyah.value > 0 /\ endAyah.value < startAyah
    /\ requests[1].limit = 1

\* the keywords of a category as a set of strings, and a text in lower case as a string
KeywordSet(t) == {keywords[t][k] : k \in 1..Len(keywords[t])}

RECURSIVE LowerString(_)
LowerString(s) ==
    IF s = "" THEN "" ELSE LowerChar(CharAt(s, 1)) \o LowerString(SubSeq(s, 2, Len(s)))

\* word is a substring of str
Occurs(word, str) ==
    \E a \in 1..(Len(str) - Len(word) + 1) : SubSeq(str, a, a + Len(word) - 1) = word

\* C11: the score of a category is the number of its distinct keywords that are
\* substrings of the text in lower case: a keyword that occurs twice counts once, and
\* the case of the text does not matter.
C11_ScoreCountsDistinctKeywords ==
    clPc = "done" =>
        /\ \A t \in BackgroundType :
              scores[t] = Cardinality({w \in KeywordSet(t) : Occurs(w, LowerString(text))})
        /\ text = "river river" => scores = [JANNAT |-> 1, SKY |-> 0, NATURE |-> 0]
        /\ text = "sunday EARTH" => scores = [JANNAT |-> 0, SKY |-> 2, NATURE |-> 1]
        /\ text = "Garden" => scores = [JANNAT |-> 1, SKY |-> 0, NATURE |-> 0]

C11_Witness ==
    /\ clPc = "done"
    /\ text = "river river"
    /\ scores[JANNAT] = 1

\* the number of decimal digits of k, and its digit at place p counted from the left
RECURSIVE DigitCount(_)
DigitCount(k) == IF k < 10 THEN 1 ELSE 1 + DigitCount(k \div 10)

RECURSIVE PowerOfTen(_)
PowerOfTen(e) == IF e = 0 THEN 1 ELSE 10 * PowerOfTen(e - 1)

DigitAt(k, p) == (k \div PowerOfTen(DigitCount(k) - p)) % 10

\* C12: the numeral of a non-negative number has one character per decimal digit, the
\* character at each place being the Arabic-Indic digit of the decimal digit at that
\* place; 123 gives the digits one, two, three and 0 gives the digit zero.
C12_NumeralDigitByDigit ==
    numPc = "done" =>
        /\ Len(numeral) = DigitCount(num)
        /\ \A p \in 1..DigitCount(num) :
              CharAt(numeral, p) = arabicDigits[DigitAt(num, p) + 1]
        /\ num = 123 => numeral = "BCD"
        /\ num = 0 => numeral = "A"

C12_Witness ==
    /\ numPc = "done"
    /\ num = 123
    /\ numeral = "BCD"

\* the response was read and held both editions
Answered == surahName # ""

\* C13: when the response holds no verse the call raises no error and returns no
\* segment: nothing is pushed, and pushSegment, which raises on an empty group, is not
\* called.
C13_EmptyResponseEmptySegments ==
    /\ \A k \in 1..Len(chunks) : chunks[k] # <<>>
    /\ (Answered /\ arabicAyahs = <<>>) =>
          /\ pc \in {"ai", "done"}
          /\ error = NoError
          /\ segments = <<>> /\ chunks = <<>> /\ i = 0
          /\ pc = "done" => result.returned /\ result.segments = <<>>

C13_Witness ==
    /\ Answered
    /\ arabicAyahs = <<>>
    /\ impl = Part000
    /\ pc = "done"
    /\ result.segments = <<>>

CallAnswered(a) == a.surahName # ""

\* two calls got the same response
SameResponse(a, b) ==
    /\ CallAnswered(a) /\ CallAnswered(b)
    /\ a.arabicAyahs = b.arabicAyahs
    /\ a.transAyahs = b.transAyahs
    /\ a.surahName = b.surahName

\* C15: two runs that get the same response build the same segments (and raise or not
\* alike); two runs of the classifier on the same text with a keyword in it choose the
\* same category; two runs on the same response return different results only when no
\* keyword matched, and then the results differ in the category only.
C15_DeterministicButZeroScore ==
    LET a == calls[1]
        b == calls[2]
    IN  /\ SameResponse(a, b) =>
              /\ a.segments = b.segments
              /\ (a.pc = "error") = (b.pc = "error")
        /\ (a.pc = "done" /\ b.pc = "done" /\ a.impl = Part000
                /\ a.contextText = b.contextText /\ MaxScore(a.scores) >= 1) =>
              /\ a.scores = b.scores
              /\ a.design.backgroundType = b.design.backgroundType
        /\ (a.pc = "done" /\ b.pc = "done" /\ a.impl = Part000
                /\ SameResponse(a, b) /\ a.result # b.result) =>
              /\ MaxScore(a.scores) = 0 /\ MaxScore(b.scores) = 0
              /\ a.result.segments = b.result.segments
              /\ a.result.design.textColor = b.result.design.textColor
              /\ a.result.design.opacity = b.result.design.opacity

C15_Witness ==
    /\ calls[1].pc = "done" /\ calls[2].pc = "done"
    /\ calls[1].impl = Part000
    /\ SameResponse(calls[1], calls[2])
    /\ Len(calls[1].arabicAyahs) = 2
    /\ MaxScore(calls[1].scores) >= 1
    /\ calls[1].result = calls[2].result
    /\ Len(calls[1].result.segments) = 1

\* C16: after a successful generation the cards are one per segment of the result, in
\* order, and every card has the background, text color and opacity of the one design
\* of that result.
C16_CardsShareTheDesign ==
    app.shown.returned =>
        /\ Len(app.cards) = Len(app.shown.segments)
        /\ \A k \in 1..Len(app.cards) :
              /\ app.cards[k].verse = app.shown.segments[k]
              /\ app.cards[k].backgroundType = app.shown.design.backgroundType
              /\ app.cards[k].textColor = app.shown.design.textColor
              /\ app.cards[k].opacity = app.shown.design.opacity
        /\ \A j, k \in 1..Len(app.cards) :
              /\ app.cards[j].backgroundType = app.cards[k].backgroundType
              /\ app.cards[j].textColor = app.cards[k].textColor
              /\ app.cards[j].opacity = app.cards[k].opacity

C16_Witness ==
    /\ app.shown.returned
    /\ ~ app.loading
    /\ Len(app.cards) = 2
    /\ app.cards[1].verse.ayah = "1"
    /\ app.cards[2].verse.ayah = "2"
    /\ app.cards[1].backgroundType = JANNAT
    /\ app.cards[2].backgroundType = JANNAT

\* C17: with two calls in flight together, each call holds and returns the segments
\* that the grouping gives on its own response alone (and raises exactly when that
\* grouping raises), whatever the other call has done in between.
C17_CallsDoNotInterfere ==
    \A c \in Calls :
        CallAnswered(calls[c]) =>
            LET a == calls[c]
                alone == Grouping(a.impl, a.arabicAyahs, a.transAyahs, a.surahName)
            IN  /\ a.segments = alone.segments
                /\ a.chunks = alone.chunks
                /\ (a.pc = "error") = alone.threw
                /\ a.pc = "done" => a.result.segments = alone.segments

C17_Witness ==
    /\ calls[1].pc = "done" /\ calls[2].pc = "done"
    /\ calls[1].impl = Part000
    /\ calls[1].arabicAyahs # calls[2].arabicAyahs
    /\ Len(calls[1].result.segments) = 1
    /\ Len(calls[2].result.segments) = 2

\* the translation of the first segment of a call, the empty string when it has none
FirstTranslation(a) == IF a.segments = <<>> THEN "" ELSE a.segments[1].translation

\* the grouping of call a ended without raising
CallGrouped(a) == a.pc \in {"ai", "done"}

\* C18: the text the theme is derived from is the translation of the first segment (in
\* geminiService.ts its first 500 characters), the empty string when there is no
\* segment; two responses with the same first segment translation get the same scores
\* and, with a keyword in it, the same category (part_000), and the same text in the
\* request to the model (geminiService.ts), whatever their later segments hold.
C18_ThemeFromFirstSegmentOnly ==
    LET a == calls[1]
        b == calls[2]
    IN  /\ \A c \in Calls :
              CallGrouped(calls[c]) =>
                  /\ calls[c].segments = <<>> => calls[c].contextText = ""
                  /\ calls[c].impl = Part000 =>
                        /\ calls[c].contextText = FirstTranslation(calls[c])
                        /\ calls[c].segments = <<>> =>
                              calls[c].scores = [JANNAT |-> 0, SKY |-> 0, NATURE |-> 0]
                  /\ calls[c].impl = GeminiService =>
                        /\ Len(calls[c].contextText) <= 500
                        /\ Len(calls[c].contextText) <= Len(FirstTranslation(calls[c]))
                        /\ calls[c].contextText =
                              SubSeq(FirstTranslation(calls[c]), 1, Len(calls[c].contextText))
                        /\ Len(FirstTranslation(calls[c])) <= 500 =>
                              calls[c].contextText = FirstTranslation(calls[c])
                        /\ calls[c].requests[2].context = calls[c].contextText
        /\ (CallGrouped(a) /\ CallGrouped(b) /\ FirstTranslation(a) = FirstTranslation(b)) =>
              /\ a.contextText = b.contextText
              /\ a.scores = b.scores
              /\ (a.impl = Part000 /\ MaxScore(a.scores) >= 1) =>
                    a.design.backgroundType = b.design.backgroundType

C18_Witness ==
    /\ calls[1].pc = "done" /\ calls[2].pc = "done"
    /\ calls[1].impl = Part000
    /\ Len(calls[1].segments) = 1
    /\ Len(calls[2].segments) = 2
    /\ FirstTranslation(calls[1]) = FirstTranslation(calls[2])
    /\ calls[2].segments[2].translation = "Mountain river (2)"
    /\ calls[1].scores = calls[2].scores

\* the first k of the items, each after the first preceded by one space
RECURSIVE SpacedUpTo(_, _)
SpacedUpTo(items, k) ==
    IF k = 0 THEN ""
    ELSE IF k = 1 THEN items[1]
    ELSE SpacedUpTo(items, k - 1) \o " " \o items[k]

\* the Arabic-Indic numeral of k, digit by digit
RECURSIVE NumeralUpTo(_, _)
NumeralUpTo(k, p) ==
    IF p = 0 THEN "" ELSE NumeralUpTo(k, p - 1) \o arabicDigits[DigitAt(k, p) + 1]

\* the index in the response of the first verse of the k-th chunk
FirstIndex(k) == Len(Flatten(SubSeq(chunks, 1, k - 1))) + 1

\* the translation that goes with the verse at index p of the response
TranslationFor(p) ==
    IF p <= Len(transAyahs) THEN transAyahs[p]
    ELSE [text |-> "", numberInSurah |-> arabicAyahs[p].numberInSurah]

\* C19: the source text of a segment is, for its verses in order, the verse text, a
\* space, the verse-end mark and the verse number in Arabic-Indic digits, the items one
\* space apart; its translation is, in the same order, the translation text, a space and
\* the verse number in parentheses, one space apart; every segment of the call has the
\* chapter name of the source edition. Verses 10 and 11 with empty source text give
\* " @BA  @BB" and "Mountain river (10) Mercy (11)".
C19_SegmentRendering ==
    /\ \A k \in 1..Len(segments) :
          /\ segments[k].arabic =
                SpacedUpTo([j \in 1..Len(chunks[k]) |->
                               chunks[k][j].text \o " " \o "@"
                                  \o NumeralUpTo(chunks[k][j].numberInSurah,
                                                 DigitCount(chunks[k][j].numberInSurah))],
                           Len(chunks[k]))
          /\ segments[k].translation =
                SpacedUpTo([j \in 1..Len(chunks[k]) |->
                               TranslationFor(FirstIndex(k) + j - 1).text \o " " \o "("
                                  \o ToString(chunks[k][j].numberInSurah) \o ")"],
                           Len(chunks[k]))
          /\ segments[k].surah = surahName
          /\ segments[k].surah = "Al-Faatiha"
    /\ (Grouped /\ startAyah = 10 /\ LensOf(arabicAyahs) = <<0, 0>>
            /\ Len(transAyahs) = 2) =>
          segments = <<[arabic |-> " @BA  @BB",
                        translation |-> "Mountain river (10) Mercy (11)",
                        surah |-> "Al-Faatiha",
                        ayah |-> "10-11"]>>

C19_Witness ==
    /\ Grouped
    /\ startAyah = 10
    /\ Len(segments) = 1
    /\ segments[1].arabic = " @BA  @BB"
    /\ segments[1].translation = "Mountain river (10) Mercy (11)"

\* the implementation that is not im
OtherImpl(im) == IF im = Part000 THEN GeminiService ELSE Part000

\* C20: on a response with as many translations as verses, the grouping of the other
\* implementation gives, for the same verses, translations and chapter name, the very
\* segments this implementation built (source text, translation, chapter name and
\* label), and neither raises.
C20_GroupingsAgreeOnCompleteData ==
    (Answered /\ Len(transAyahs) = Len(arabicAyahs)) =>
        LET other == Grouping(OtherImpl(impl), arabicAyahs, transAyahs, surahName)
        IN  /\ Grouped
            /\ ~ other.threw
            /\ other.segments = segments
            /\ other.chunks = chunks

C20_Witness ==
    /\ Answered
    /\ impl = GeminiService
    /\ Len(arabicAyahs) = 3
    /\ Len(transAyahs) = 3
    /\ Len(segments) = 2
    /\ Grouping(Part000, arabicAyahs, transAyahs, surahName).segments = segments


\* the preview request started for the current selection is still in flight
CurrentPreviewInFlight ==
    \E k \in 1..Len(app.previews) : app.previews[k].id = app.selections

\* C21: once every started preview request has completed, previewVerses holds the verses
\* of the selected surah or is empty, and loadingVerses is true whenever the request
\* started for the current selection is still in flight.
C21_PreviewFollowsLatestSelection ==
    /\ app.previews = <<>> =>
          app.previewVerses \in {PreviewAyahs(app.selectedSurah), <<>>}
    /\ CurrentPreviewInFlight => app.loadingVerses


\* C22: while loading is true it is eventually set back to false, whether the awaited
\* call returns or raises; and at most one call of fetchVerseAndDesign is in flight, and
\* only while loading is true.
C22_LoadingEndsAndOneRequest ==
    /\ app.loading ~> ~ app.loading
    /\ [](Len(calls) <= 1 /\ (calls # <<>> => app.loading))

C22_Witness ==
    /\ app.fetches = 2
    /\ app.alerts = 1
    /\ app.shown.returned
    /\ ~ app.loading
    /\ calls = <<>>


\* C23: a press of Generate that rejects the range starts no call and changes neither
\* cards nor loading; when the awaited call raises, the cards stay as they were; and
\* cards changes only to the cards of the complete result of a call that returned.
C23_FailedGenerationKeepsCards ==
    [][/\ (/\ app.isRangeMode
           /\ app.endAyah < app.startAyah
           /\ app'.fetches # app.fetches)
          => /\ calls' = calls
             /\ app'.cards = app.cards
             /\ app'.loading = app.loading
       /\ (calls # <<>> /\ calls[1].pc = "error" /\ calls' # calls)
          => app'.cards = app.cards
       /\ app'.cards # app.cards
          => /\ calls # <<>>
             /\ calls[1].pc = "done"
             /\ calls' = Tail(calls)
             /\ app'.cards = NewCards(calls[1].result.segments, calls[1].result.design)
      ]_vars

C23_Witness ==
    /\ app.outcome = "error"
    /\ ~ app.loading
    /\ calls = <<>>
    /\ app.shown.returned
    /\ Len(app.cards) = 2
    /\ app.cards = NewCards(app.shown.segments, app.shown.design)


\* the cards that have a download in progress
DownloadsInProgress == {app.downloads[k].index : k \in 1..Len(app.downloads)}

\* C24: while a download is in progress, downloadingId is the index of a card whose
\* download is in progress, also when downloads of two cards overlap; and with no
\* download in progress downloadingId is null.
C24_DownloadingIdNamesADownload ==
    IF app.downloads = <<>>
    THEN app.downloadingId = Null
    ELSE /\ app.downloadingId # Null
         /\ app.downloadingId.value \in DownloadsInProgress


\* C25: in every state reached through the surah select, the start select, the range
\* toggle and the end select, 1 <= startAyah <= endAyah; and every call of
\* fetchVerseAndDesign that handleFetchVerse starts gets startAyah and, in range mode,
\* an end bound that is endAyah and not below the start bound, and in single-verse mode
\* no end bound.
C25_RangeOrdered ==
    /\ [](1 <= app.startAyah /\ app.startAyah <= app.endAyah)
    /\ [][Len(calls') > Len(calls) =>
             LET started == calls'[Len(calls')]
             IN  /\ started.startAyah = app.startAyah
                 /\ IF app.isRangeMode
                    THEN /\ started.endAyah = Num(app.endAyah)
                         /\ started.endAyah.value >= started.startAyah
                    ELSE started.endAyah = Undefined
         ]_vars

C25_Witness ==
    /\ app.selections >= 1
    /\ ~ app.isRangeMode
    /\ app.startAyah = 2
    /\ app.endAyah = 2
    /\ calls # <<>>
    /\ calls[1].pc = "start"
    /\ calls[1].startAyah = 2
    /\ calls[1].endAyah = Undefined

====
